---- MODULE Spec2Model ----
(***************************************************************************)
(* A model of the tag hooks of PySkCode:                                   *)
(*   skcode/tags/codeblocks.py  CodeBlockTreeNode                          *)
(*   skcode/tags/medias.py      ImageTreeNode, YoutubeTreeNode             *)
(*   skcode/tags/collapse.py    CollapseBaseTreeNode                       *)
(*                                                                         *)
(* A Python string is a sequence of atoms.  An atom is one character       *)
(* ("<", ",", "-", "2", " ") or a run of letters and digits that no        *)
(* operation of these modules looks inside ("python", "youtu.be").         *)
(* Numbers are spelled digit by digit, so that int() really parses.        *)
(***************************************************************************)
EXTENDS Integers, Sequences, FiniteSets, TLC

(***************************************************************************)
(* Plain string helpers (str methods of Python).                           *)
(***************************************************************************)

\* '' is falsy, every other string is truthy.
Truthy(s) == s # <<>>

RECURSIVE Concat(_)
\* ''.join(parts)
Concat(parts) ==
    IF parts = <<>> THEN <<>> ELSE Head(parts) \o Concat(Tail(parts))

\* The characters str.strip() removes.
Whitespace == {" ", "\t", "\n"}

RECURSIVE lstrip(_)
lstrip(s) ==
    IF s # <<>> /\ Head(s) \in Whitespace THEN lstrip(Tail(s)) ELSE s

RECURSIVE rstrip(_)
rstrip(s) ==
    IF s # <<>> /\ s[Len(s)] \in Whitespace
    THEN rstrip(SubSeq(s, 1, Len(s) - 1)) ELSE s

\* str.strip()
strip(s) == rstrip(lstrip(s))

\* Index of the first occurrence of atom c in s, 0 when there is none.
Find(s, c) ==
    IF \E i \in DOMAIN s : s[i] = c
    THEN CHOOSE i \in DOMAIN s : s[i] = c /\ \A j \in 1..(i - 1) : s[j] # c
    ELSE 0

\* Index of the first atom of s that is in set cs, Len(s) + 1 when none.
FindAny(s, cs) ==
    IF \E i \in DOMAIN s : s[i] \in cs
    THEN CHOOSE i \in DOMAIN s : s[i] \in cs /\ \A j \in 1..(i - 1) : s[j] \notin cs
    ELSE Len(s) + 1

RECURSIVE split(_, _)
\* str.split(sep) for a one-character separator: always at least one part.
split(s, sep) ==
    LET i == Find(s, sep)
    IN  IF i = 0 THEN <<s>>
        ELSE <<SubSeq(s, 1, i - 1)>> \o split(SubSeq(s, i + 1, Len(s)), sep)

\* A list of parts without its last part when that part is empty.
DropLastEmpty(parts) ==
    IF parts[Len(parts)] = <<>>
    THEN SubSeq(parts, 1, Len(parts) - 1) ELSE parts

\* str.splitlines(): a final line break opens no further line.
splitlines(s) ==
    IF s = <<>> THEN <<>> ELSE DropLastEmpty(split(s, "\n"))

RECURSIVE JoinWith(_, _)
\* sep.join(parts)
JoinWith(parts, sep) ==
    IF parts = <<>> THEN <<>>
    ELSE IF Len(parts) = 1 THEN parts[1]
    ELSE parts[1] \o sep \o JoinWith(Tail(parts), sep)

(***************************************************************************)
(* int() and '{:d}'.format()                                               *)
(***************************************************************************)

DigitSeq == <<"0", "1", "2", "3", "4", "5", "6", "7", "8", "9">>

Digits == {DigitSeq[i] : i \in DOMAIN DigitSeq}

DigitValue(c) == (CHOOSE i \in DOMAIN DigitSeq : DigitSeq[i] = c) - 1

RECURSIVE DigitsValue(_)
DigitsValue(s) ==
    IF s = <<>> THEN 0
    ELSE 10 * DigitsValue(SubSeq(s, 1, Len(s) - 1)) + DigitValue(s[Len(s)])

\* The value of a sign and a run of digits; ok = FALSE is ValueError.
ParseDigits(negative, body) ==
    IF body # <<>> /\ \A i \in DOMAIN body : body[i] \in Digits
    THEN [ok |-> TRUE,
          value |-> IF negative THEN 0 - DigitsValue(body)
                    ELSE DigitsValue(body)]
    ELSE [ok |-> FALSE, value |-> 0]

\* int() of a string without surrounding whitespace.
ParseInt(t) ==
    ParseDigits(t # <<>> /\ Head(t) = "-",
                IF t # <<>> /\ Head(t) \in {"+", "-"} THEN Tail(t) ELSE t)

\* int(s): surrounding whitespace is ignored, then an optional sign and at
\* least one digit; anything else raises ValueError.
int(s) == ParseInt(strip(s))

RECURSIVE FormatNat(_)
FormatNat(n) ==
    IF n < 10 THEN <<DigitSeq[n + 1]>>
    ELSE FormatNat(n \div 10) \o <<DigitSeq[(n % 10) + 1]>>

\* '{:d}'.format(n) and '{}'.format(n) of an int
FormatInt(n) == IF n < 0 THEN <<"-">> \o FormatNat(0 - n) ELSE FormatNat(n)

(***************************************************************************)
(* Escaping and URL helpers of the standard library.                       *)
(***************************************************************************)

\* The characters html.escape() replaces.
HtmlSpecial == {"&", "<", ">", "\"", "'"}

EscapeAtom(c) ==
    CASE c = "&"  -> "&amp;"
      [] c = "<"  -> "&lt;"
      [] c = ">"  -> "&gt;"
      [] c = "\"" -> "&quot;"
      [] c = "'"  -> "&#x27;"
      [] OTHER    -> c

\* html.escape(s) (quote=True)
escape_html(s) == [i \in DOMAIN s |-> EscapeAtom(s[i])]

UnescapeAtom(c) ==
    CASE c = "&amp;"  -> "&"
      [] c = "&lt;"   -> "<"
      [] c = "&gt;"   -> ">"
      [] c = "&quot;" -> "\""
      [] c = "&#x27;" -> "'"
      [] OTHER        -> c

\* html.unescape(s)
unescape_html_entities(s) == [i \in DOMAIN s |-> UnescapeAtom(s[i])]

QuoteAtom(c) ==
    CASE c = " "  -> "+"
      [] c = "\"" -> "%22"
      [] c = "<"  -> "%3C"
      [] c = ">"  -> "%3E"
      [] c = "&"  -> "%26"
      [] c = "'"  -> "%27"
      [] c = "/"  -> "%2F"
      [] c = ":"  -> "%3A"
      [] c = "="  -> "%3D"
      [] c = "?"  -> "%3F"
      [] c = "#"  -> "%23"
      [] c = "["  -> "%5B"
      [] OTHER    -> c

\* urllib.parse.quote_plus(s): letters, digits and _.-~ are kept.
quote_plus(s) == [i \in DOMAIN s |-> QuoteAtom(s[i])]

\* The one-character atoms that cannot be part of a URL scheme.
Punctuation ==
    {":", "/", "?", "#", "&", "=", "<", ">", "\"", "'", "[", "]", ",", "_"}
        \cup Whitespace

LowerAtom(c) ==
    CASE c = "JavaScript" -> "javascript"
      [] c = "Fig"        -> "fig"
      [] OTHER            -> c

\* str.lower()
lower(s) == [i \in DOMAIN s |-> LowerAtom(s[i])]

(***************************************************************************)
(* urllib.parse.urlsplit(url), step by step: scheme, network location,     *)
(* fragment, query, path.                                                  *)
(***************************************************************************)

\* The parts, r being what is left of the URL and q the place of its "?".
\* ok = FALSE stands for the ValueError raised on an unbalanced bracket in
\* the network location.
UrlParts(scheme, netloc, r, q, fragment) ==
    [ok |-> ~((Find(netloc, "[") # 0) # (Find(netloc, "]") # 0)),
     scheme |-> scheme, netloc |-> netloc,
     path |-> IF q = 0 THEN r ELSE SubSeq(r, 1, q - 1),
     query |-> IF q = 0 THEN <<>> ELSE SubSeq(r, q + 1, Len(r)),
     fragment |-> fragment]

\* r is what follows the network location and f the place of its "#".
SplitFragment(scheme, netloc, r, f) ==
    UrlParts(scheme, netloc,
             IF f = 0 THEN r ELSE SubSeq(r, 1, f - 1),
             Find(IF f = 0 THEN r ELSE SubSeq(r, 1, f - 1), "?"),
             IF f = 0 THEN <<>> ELSE SubSeq(r, f + 1, Len(r)))

\* r is what follows the "//" (or the scheme when there is no "//") and d
\* the place where the network location ends.
SplitNetloc(scheme, r, d) ==
    SplitFragment(scheme, SubSeq(r, 1, d - 1), SubSeq(r, d, Len(r)),
                  Find(SubSeq(r, d, Len(r)), "#"))

\* rest is what follows the scheme.
SplitAuthority(scheme, rest, has_netloc) ==
    SplitNetloc(scheme,
                IF has_netloc THEN SubSeq(rest, 3, Len(rest)) ELSE rest,
                IF has_netloc
                THEN FindAny(SubSeq(rest, 3, Len(rest)), {"/", "?", "#"})
                ELSE 1)

\* i is the place of the ":" that ends the scheme, 0 when there is none.
SplitScheme(url, i) ==
    SplitAuthority(IF i = 0 THEN <<>> ELSE lower(SubSeq(url, 1, i - 1)),
                   SubSeq(url, i + 1, Len(url)),
                   /\ Len(url) >= i + 2
                   /\ url[i + 1] = "/"
                   /\ url[i + 2] = "/")

\* i is the place of the first ":"; what precedes it is a scheme when it
\* is not empty, starts with a letter and holds no punctuation.
SchemeEnd(url, i) ==
    IF /\ i > 1
       /\ url[1] \notin Digits
       /\ \A j \in 1..(i - 1) : url[j] \notin Punctuation
    THEN i ELSE 0

urlsplit(url) == SplitScheme(url, SchemeEnd(url, Find(url, ":")))

\* One pair of a query, e being the place of its "=": a pair without "="
\* or with a blank value gives nothing, and "+" decodes to a space.
PairValue(p, e, name) ==
    IF e # 0 /\ SubSeq(p, 1, e - 1) = name /\ e < Len(p)
    THEN <<[i \in 1..(Len(p) - e) |->
               IF p[e + i] = "+" THEN " " ELSE p[e + i]]>>
    ELSE <<>>

RECURSIVE QueryValues(_, _)
\* parse_qs(query).get(name): the values of the pairs name=value of the
\* query, in order (keep_blank_values is off).
QueryValues(pairs, name) ==
    IF pairs = <<>> THEN <<>>
    ELSE PairValue(Head(pairs), Find(Head(pairs), "="), name)
             \o QueryValues(Tail(pairs), name)

parse_qs_get(query, name) == QueryValues(split(query, "&"), name)

RECURSIVE rstrip_slash(_)
\* path.rstrip('/')
rstrip_slash(s) ==
    IF s # <<>> /\ s[Len(s)] = "/"
    THEN rstrip_slash(SubSeq(s, 1, Len(s) - 1)) ELSE s

\* posixpath.basename(p): what follows the last "/".
basename(p) ==
    SubSeq(p,
           IF \E i \in DOMAIN p : p[i] = "/"
           THEN 1 + CHOOSE i \in DOMAIN p :
                        p[i] = "/" /\ \A j \in (i + 1)..Len(p) : p[j] # "/"
           ELSE 1,
           Len(p))

(***************************************************************************)
(* The state.                                                              *)
(*                                                                         *)
(* node: the tree node the hooks are called on, a record                   *)
(*   tag               the tag name the node was created with              *)
(*   attrs             attribute name -> value; every accessor of these    *)
(*                     modules reads attrs.get(name, '') or tests the      *)
(*                     value for truth, so a missing key and an empty      *)
(*                     value are one case, written <<>>                    *)
(*   content           the raw content                                     *)
(*   children          the child nodes (opaque names)                      *)
(*   relative_url_base the base URL configured on the root tree node       *)
(*   error_message     the error annotation, <<>> when there is none       *)
(* pygments_imported: whether the import of lines 10-17 succeeded.         *)
(* last, streak: the hook called last and how many times in a row it has   *)
(*   been called (counted up to MaxStreak).                                *)
(* out: what the last call returned or raised.                             *)
(* errlog: the values assigned to error_message during the last call.      *)
(* sanitized, pc, acc: the concurrent renders (see ConcSpec).              *)
(***************************************************************************)
VARIABLES node, pygments_imported, last, streak, out, errlog,
          sanitized, pc, acc

vars == <<node, pygments_imported, last, streak, out, errlog, sanitized, pc, acc>>

AttrNames == {"code", "language", "hl_lines", "linenostart", "filename",
              "src", "id", "alt", "width", "height", "title", "acronym",
              "abbr"}

NoAttrs == [a \in AttrNames |-> <<>>]

\* dict.get(name, '')
attrs_get(n, name) == n.attrs[name]

(***************************************************************************)
(* The outcome of a call: the node as the call leaves it, whether it       *)
(* returned or raised, the value or the exception, and the assignments to  *)
(* error_message it made, in order.                                        *)
(***************************************************************************)
Return(n, value, log) ==
    [node |-> n, status |-> "returned", value |-> value, log |-> log]

Raise(n, exc, log) ==
    [node |-> n, status |-> "raised", value |-> exc, log |-> log]

\* SetErrorMessage adding to the message instead of replacing it.
SetErrorMessageAdding(r, msg) ==
    [r EXCEPT !.node.error_message = @ \o msg, !.log = Append(@, msg)]

\* self.error_message = msg, inside a call whose outcome so far is r.
SetErrorMessage(r, msg) ==
    [r EXCEPT !.node.error_message = msg, !.log = Append(@, msg)]

\* A string built by render_html is a sequence of pieces: the text and the
\* function the text went through last ("template" for the literal text of
\* a template, "none" for a value of the node used as it is).
Piece(via, text) == [via |-> via, text |-> text]

RECURSIVE PiecesText(_)
\* The flat string a sequence of pieces spells.
PiecesText(pieces) ==
    IF pieces = <<>> THEN <<>>
    ELSE Head(pieces).text \o PiecesText(Tail(pieces))

\* An outcome r followed by the outcome r2 of a later call of the same
\* hook: the node and the value of r2, the assignments of both.
Then(r, r2) == [r2 EXCEPT !.log = r.log \o @]

(***************************************************************************)
(* Collaborators whose code is outside these modules.                      *)
(***************************************************************************)

\* Of two attribute values, the first that is set; else the default.
FirstSet(first, second, default) ==
    IF Truthy(first) THEN first
    ELSE IF Truthy(second) THEN second ELSE default

\* TreeNode.get_attribute_value('', name, default=...): the attribute named
\* after the tag itself ('') when it is set, else the attribute name, else
\* the default.
get_attribute_value(n, name, default) ==
    FirstSet(n.attrs[n.tag], n.attrs[name], default)

\* TreeNode.get_raw_content()
get_raw_content(n) == n.content

\* get_relative_url_base(root_tree_node)
get_relative_url_base(n) == n.relative_url_base

\* The schemes sanitize_url accepts when the caller names none.
default_allowed_schemes == {<<"http">>, <<"https">>}

\* The URL sanitize_url returns for a URL that splits into parts.
SanitizedUrl(url, parts, schemes, absolute_base_url) ==
    IF ~Truthy(url) \/ ~parts.ok THEN <<>>
    ELSE IF Truthy(parts.scheme)
    THEN IF parts.scheme \in schemes THEN url ELSE <<>>
    ELSE absolute_base_url \o url

\* tools.sanitize_url(url, allowed_schemes, absolute_base_url): '' for an
\* empty or malformed URL and for a scheme outside the allow-list; a URL
\* without scheme is resolved against the base when there is one.
sanitize_url(url, schemes, absolute_base_url) ==
    SanitizedUrl(url, urlsplit(url), schemes, absolute_base_url)

SlugAtom(c) ==
    IF c \in Whitespace THEN <<"-">>
    ELSE IF c \in Punctuation \/ c \in HtmlSpecial THEN <<>>
    ELSE <<LowerAtom(c)>>

\* tools.slugify(s): letters and digits in lower case, "-" for spaces.
slugify(s) == Concat([i \in DOMAIN s |-> SlugAtom(s[i])])

\* TreeNode.sanitize_node(breadcrumb), the base hook: nothing to check.
base_sanitize_node(n) == Return(n, <<>>, <<>>)

\* The lexers Pygments knows, among the names the model uses.
KnownLexers == {<<"text">>, <<"python">>}

\* pygments.lexers.get_lexer_by_name(name): ok = FALSE is ClassNotFound.
get_lexer_by_name(name) == [ok |-> name \in KnownLexers, lexer |-> name]

\* pygments.highlight(code, lexer, formatter): the fragment keeps what the
\* formatter was given; the code is HTML-escaped by the formatter.
highlight(code, lexer, hl_lines, linenostart, lineanchors) ==
    [via |-> "highlight", text |-> escape_html(code), lexer |-> lexer,
     hl_lines |-> hl_lines, linenostart |-> linenostart,
     lineanchors |-> lineanchors]

(***************************************************************************)
(* CodeBlockTreeNode (codeblocks.py)                                       *)
(***************************************************************************)

tab_size == 4

default_language_name == <<"text">>

MsgLinePositive == <<"Line number must be positive">>

MsgNotANumber(s) == s \o <<" is not a number">>

MsgUnknownLanguage == <<"Unknown language">>

\* get_language_name looking at the language attribute first.
LanguageNamedFirst(n) ==
    unescape_html_entities(
        FirstSet(n.attrs["language"], n.attrs[n.tag], default_language_name))

get_language_name(n) ==
    unescape_html_entities(
        get_attribute_value(n, "language", default_language_name))

\* HighlightNumber without the test of the sign.
HighlightNumberAnySign(r, line_num, parsed) ==
    IF ~parsed.ok THEN SetErrorMessage(r, MsgNotANumber(line_num))
    ELSE [r EXCEPT !.value = Append(@, parsed.value)]

\* Lines 120-127: line_num is the stripped token, parsed is int(line_num),
\* r.value is line_nums.
HighlightNumber(r, line_num, parsed) ==
    IF ~parsed.ok THEN SetErrorMessage(r, MsgNotANumber(line_num))
    ELSE IF parsed.value >= 0
    THEN [r EXCEPT !.value = Append(@, parsed.value)]
    ELSE SetErrorMessage(r, MsgLinePositive)

\* Lines 118-119: an empty token is skipped.
HighlightToken(r, line_num) ==
    IF ~Truthy(line_num) THEN r
    ELSE HighlightNumber(r, line_num, int(line_num))

\* One turn of the loop of get_highlight_lines.
HighlightStep(r, token) == HighlightToken(r, strip(token))

RECURSIVE HighlightLoop(_, _)
HighlightLoop(r, tokens) ==
    IF tokens = <<>> THEN r
    ELSE HighlightLoop(HighlightStep(r, Head(tokens)), Tail(tokens))

get_highlight_lines(n) ==
    IF ~Truthy(attrs_get(n, "hl_lines")) THEN Return(n, <<>>, <<>>)
    ELSE HighlightLoop(Return(n, <<>>, <<>>),
                       split(attrs_get(n, "hl_lines"), ","))

\* Lines 146-155: r returns 1, parsed is int(first_line_number).
StartLineNumber(r, first_line_number, parsed) ==
    IF ~parsed.ok
    THEN SetErrorMessage(r, MsgNotANumber(first_line_number))
    ELSE IF parsed.value >= 0 THEN [r EXCEPT !.value = parsed.value]
    ELSE SetErrorMessage(r, MsgLinePositive)

get_start_line_number(n) ==
    IF ~Truthy(attrs_get(n, "linenostart")) THEN Return(n, 1, <<>>)
    ELSE StartLineNumber(Return(n, 1, <<>>), attrs_get(n, "linenostart"),
                         int(attrs_get(n, "linenostart")))

get_filename(n) == unescape_html_entities(attrs_get(n, "filename"))

get_source_link_url(n) ==
    sanitize_url(attrs_get(n, "src"), default_allowed_schemes,
                 get_relative_url_base(n))

get_figure_id(n) == slugify(attrs_get(n, "id"))

\* Blank taking only the empty line for blank.
BlankWhenEmpty(line) == line = <<>>

\* A line is blank when line.strip() is empty.
Blank(line) == ~Truthy(strip(line))

RECURSIVE DropLeadingBlank(_)
DropLeadingBlank(lines) ==
    IF lines # <<>> /\ Blank(Head(lines))
    THEN DropLeadingBlank(Tail(lines)) ELSE lines

RECURSIVE DropTrailingBlank(_)
DropTrailingBlank(lines) ==
    IF lines # <<>> /\ Blank(lines[Len(lines)])
    THEN DropTrailingBlank(SubSeq(lines, 1, Len(lines) - 1)) ELSE lines

\* get_cleaned_content(splitlines=True)
get_cleaned_lines(n) ==
    DropTrailingBlank(DropLeadingBlank(splitlines(n.content)))

\* get_cleaned_content()
get_cleaned_content(n) == JoinWith(get_cleaned_lines(n), <<"\n">>)

\* Lines 202-207, r being the outcome of the calls before.  The names
\* get_lexer_by_name and ClassNotFound are bound only when the import of
\* Pygments succeeded; using either raises NameError otherwise.
CheckLanguage(r, language_name) ==
    IF ~Truthy(language_name) THEN r
    ELSE IF ~pygments_imported THEN Raise(r.node, "NameError", r.log)
    ELSE IF get_lexer_by_name(language_name).ok THEN r
    ELSE SetErrorMessage(r, MsgUnknownLanguage)

\* The call of an accessor after the calls with outcome r.
ThenHighlightLines(r) == Then(r, get_highlight_lines(r.node))

ThenStartLineNumber(r) == Then(r, get_start_line_number(r.node))

\* sanitize_node returns None: the values of the accessors are dropped.
DropValue(r) == [r EXCEPT !.value = <<>>]

code_sanitize_node(n) ==
    CheckLanguage(
        DropValue(ThenStartLineNumber(ThenHighlightLines(base_sanitize_node(n)))),
        get_language_name(n))

\* FoundOrDefault without the fallback to the default lexer.
FoundOnly(found) == found.lexer

\* The lexer render_html highlights with (lines 227-232): the default one
\* when the language is unknown.
FoundOrDefault(found) ==
    IF found.ok THEN found.lexer
    ELSE get_lexer_by_name(default_language_name).lexer

RenderLexer(n) == FoundOrDefault(get_lexer_by_name(get_language_name(n)))

\* The source link around a caption (lines 259-263).
SourceLink(src_link_url, force_rel_nofollow, caption) ==
    <<Piece("template", <<"<a href=\"">>),
      Piece("sanitize_url", src_link_url),
      Piece("template",
            <<"\"">> \o (IF force_rel_nofollow
                         THEN <<" rel=\"nofollow\"">> ELSE <<>>)
                \o <<" target=\"_blank\">">>)>>
        \o caption
        \o <<Piece("template",
                   <<" <i class=\"fa fa-link\" aria-hidden=\"true\"></i></a>">>)>>

\* The caption text (line 256).
CaptionText(src_filename, src_link_url) ==
    <<Piece("template", <<"Source : ">>),
      IF Truthy(src_filename)
      THEN Piece("escape_html", escape_html(src_filename))
      ELSE Piece("sanitize_url", src_link_url)>>

\* The caption of render_html (lines 256-263), as pieces.
HtmlCaption(src_filename, src_link_url, force_rel_nofollow) ==
    IF Truthy(src_link_url)
    THEN SourceLink(src_link_url, force_rel_nofollow,
                    CaptionText(src_filename, src_link_url))
    ELSE CaptionText(src_filename, src_link_url)

\* Lines 242-246: the highlighted code in its wrapping div.
SourceCode(n, hl_lines, linenostart) ==
    <<Piece("template", <<"<div class=\"codetable\">\n    ">>),
      highlight(get_cleaned_content(n), RenderLexer(n), hl_lines, linenostart,
                get_figure_id(n)),
      Piece("template", <<"\n</div>">>)>>

\* Lines 252-274: the block, with a caption, with an anchor or bare.
CodeHtmlLayout(figure_id, source_code, caption, with_caption) ==
    IF with_caption
    THEN <<Piece("template", <<"<div class=\"panel panel-default\" id=\"">>),
           Piece("slugify", figure_id),
           Piece("template", <<"\">\n    <div class=\"panel-body\">\n        ">>)>>
         \o source_code
         \o <<Piece("template", <<"\n    </div>\n    <div class=\"panel-footer\">\n        ">>)>>
         \o caption
         \o <<Piece("template", <<"\n    </div>\n</div>">>)>>
    ELSE IF Truthy(figure_id)
    THEN <<Piece("template", <<"<a id=\"">>),
           Piece("slugify", figure_id),
           Piece("template", <<"\"></a>\n">>)>> \o source_code
    ELSE source_code

CodeHtmlCaptioned(figure_id, source_code, src_filename, src_link_url, nofollow) ==
    CodeHtmlLayout(figure_id, source_code,
                   HtmlCaption(src_filename, src_link_url, nofollow),
                   Truthy(src_filename) \/ Truthy(src_link_url))

\* The string render_html builds (lines 219-274) from the values its two
\* accessors returned.
CodeHtml(n, hl_lines, linenostart, force_rel_nofollow) ==
    CodeHtmlCaptioned(get_figure_id(n), SourceCode(n, hl_lines, linenostart),
                      get_filename(n), get_source_link_url(n),
                      force_rel_nofollow)

\* r1 and r2 are the outcomes of get_highlight_lines and, after it, of
\* get_start_line_number.
CodeHtmlReturn(r1, r2, force_rel_nofollow) ==
    Return(r2.node, CodeHtml(r2.node, r1.value, r2.value, force_rel_nofollow),
           r1.log \o r2.log)

CodeHtmlAfter(r1, force_rel_nofollow) ==
    CodeHtmlReturn(r1, get_start_line_number(r1.node), force_rel_nofollow)

\* get_lexer_by_name (line 228) is an unbound name when the import of
\* Pygments failed: NameError, before any accessor has run.
code_render_html(n, inner_html, force_rel_nofollow) ==
    IF ~pygments_imported THEN Raise(n, "NameError", <<>>)
    ELSE CodeHtmlAfter(get_highlight_lines(n), force_rel_nofollow)

\* line.replace('\t', ' ' * tab_size)
ExpandTabs(line) ==
    Concat([i \in DOMAIN line |->
               IF line[i] = "\t" THEN [j \in 1..tab_size |-> " "]
               ELSE <<line[i]>>])

\* prefix.ljust(4): the prefix holds one-character atoms only.
ljust4(prefix) ==
    prefix \o [j \in 1..(IF Len(prefix) < 4 THEN 4 - Len(prefix) ELSE 0) |-> " "]

\* One line of the listing of render_text (lines 294-296).
TextLine(num, line, hl_lines) ==
    ljust4(FormatInt(num)
               \o (IF \E i \in DOMAIN hl_lines : hl_lines[i] = num
                   THEN <<">">> ELSE <<".">>))
        \o <<" ">> \o ExpandTabs(line)

\* Listing numbering the lines from 1, whatever the start line.
ListingFromOne(content, linenostart, hl_lines) ==
    [i \in DOMAIN content |-> TextLine(i, content[i], hl_lines)]

\* The numbered lines of render_text (lines 292-296).
Listing(content, linenostart, hl_lines) ==
    [i \in DOMAIN content |->
        TextLine(linenostart + i - 1, content[i], hl_lines)]

\* The caption line of render_text (lines 299-309), none without a file
\* name and a link.
TextCaption(src_filename, src_link_url, figure_extra) ==
    IF Truthy(src_filename) /\ Truthy(src_link_url)
    THEN <<<<"Source : ">> \o src_filename \o <<" (">> \o src_link_url
               \o <<")">> \o figure_extra>>
    ELSE IF Truthy(src_filename)
    THEN <<<<"Source : ">> \o src_filename \o figure_extra>>
    ELSE IF Truthy(src_link_url)
    THEN <<<<"Source : ">> \o src_link_url \o figure_extra>>
    ELSE <<>>

FigureExtra(figure_id) ==
    IF Truthy(figure_id) THEN <<" [#">> \o figure_id \o <<"]">> ELSE <<>>

\* The string render_text builds (lines 284-313) from the values its two
\* accessors returned.
CodeText(n, linenostart, hl_lines) ==
    JoinWith(Listing(get_cleaned_lines(n), linenostart, hl_lines)
                 \o TextCaption(get_filename(n), get_source_link_url(n),
                                FigureExtra(get_figure_id(n)))
                 \o <<<<>>>>,
             <<"\n">>)

\* r1 and r2 are the outcomes of get_start_line_number and, after it, of
\* get_highlight_lines.
CodeTextReturn(r1, r2) ==
    Return(r2.node, CodeText(r2.node, r1.value, r2.value), r1.log \o r2.log)

CodeTextAfter(r1) == CodeTextReturn(r1, get_highlight_lines(r1.node))

code_render_text(n, inner_text) == CodeTextAfter(get_start_line_number(n))

(***************************************************************************)
(* ImageTreeNode (medias.py)                                               *)
(***************************************************************************)

allowed_schemes == {<<"http">>, <<"https">>}

MsgWidthPositive == <<"Width must be positive">>

MsgHeightPositive == <<"Height must be positive">>

MsgMissingSource == <<"Missing or erroneous source URL">>

\* The link as a piece: the src attribute is returned as it is (line 54),
\* the raw content goes through sanitize_url (lines 55-58).
get_image_src_link(n) ==
    IF Truthy(attrs_get(n, "src")) THEN Piece("none", attrs_get(n, "src"))
    ELSE Piece("sanitize_url",
               sanitize_url(strip(get_raw_content(n)), allowed_schemes,
                            get_relative_url_base(n)))

get_alt_text(n) == unescape_html_entities(attrs_get(n, "alt"))

\* Lines 75-84 and 93-102: r returns 0, parsed is int(text).
DimensionParsed(r, text, parsed, positive_message) ==
    IF ~parsed.ok THEN SetErrorMessage(r, MsgNotANumber(text))
    ELSE IF parsed.value > 0 THEN [r EXCEPT !.value = parsed.value]
    ELSE SetErrorMessage(r, positive_message)

\* get_img_width and get_img_height differ in the attribute and the message.
ImageDimension(n, attr_name, positive_message) ==
    IF ~Truthy(attrs_get(n, attr_name)) THEN Return(n, 0, <<>>)
    ELSE DimensionParsed(Return(n, 0, <<>>), attrs_get(n, attr_name),
                         int(attrs_get(n, attr_name)), positive_message)

get_img_width(n) == ImageDimension(n, "width", MsgWidthPositive)

get_img_height(n) == ImageDimension(n, "height", MsgHeightPositive)

ThenImgWidth(r) == Then(r, get_img_width(r.node))

ThenImgHeight(r) == Then(r, get_img_height(r.node))

\* Lines 112-113, r being the outcome of the calls before.
CheckSourceLink(r, src_link) ==
    IF ~Truthy(src_link.text) THEN SetErrorMessage(r, MsgMissingSource) ELSE r

img_sanitize_node(n) ==
    CheckSourceLink(
        DropValue(ThenImgHeight(ThenImgWidth(base_sanitize_node(n)))),
        get_image_src_link(n))

\* name="value" for a value that is set, nothing otherwise.
HtmlAttribute(name, value) ==
    IF Truthy(value.text)
    THEN <<Piece("template", <<" ", name, "=\"">>), value,
           Piece("template", <<"\"">>)>>
    ELSE <<>>

\* '{}'.format(n) of a width or a height, '' standing for 0 (not shown).
DimensionText(n) == IF n = 0 THEN <<>> ELSE FormatInt(n)

\* The string render_html builds (lines 123-142) from the values its two
\* accessors returned.
ImgHtml(n, img_width, img_height) ==
    <<Piece("template", <<"<img src=\"">>), get_image_src_link(n),
      Piece("template", <<"\"">>)>>
        \o HtmlAttribute("alt", Piece("escape_html", escape_html(get_alt_text(n))))
        \o HtmlAttribute("width", Piece("int", DimensionText(img_width)))
        \o HtmlAttribute("height", Piece("int", DimensionText(img_height)))
        \o <<Piece("template", <<" />">>)>>

\* r1 and r2 are the outcomes of get_img_width and, after it, of
\* get_img_height.
ImgHtmlReturn(r1, r2) ==
    Return(r2.node, ImgHtml(r2.node, r1.value, r2.value), r1.log \o r2.log)

ImgHtmlAfter(r1) == ImgHtmlReturn(r1, get_img_height(r1.node))

img_render_html(n, inner_html) == ImgHtmlAfter(get_img_width(n))

\* img_render_text giving up on a node that carries an error.
ImgRenderTextUnlessError(n, inner_text) ==
    Return(n,
           IF n.error_message # <<>> THEN inner_text
           ELSE IF Truthy(attrs_get(n, "alt"))
           THEN get_image_src_link(n).text \o <<" (">>
                    \o unescape_html_entities(attrs_get(n, "alt")) \o <<")">>
           ELSE get_image_src_link(n).text,
           <<>>)

\* Lines 155-161.
ImgText(src_link, alt_text, inner_text) ==
    IF ~Truthy(src_link) THEN inner_text
    ELSE IF Truthy(alt_text)
    THEN src_link \o <<" (">> \o alt_text \o <<")">>
    ELSE src_link

img_render_text(n, inner_text) ==
    Return(n, ImgText(get_image_src_link(n).text, get_alt_text(n), inner_text),
           <<>>)

(***************************************************************************)
(* YoutubeTreeNode (medias.py)                                             *)
(***************************************************************************)

default_iframe_width == 560

default_iframe_height == 315

allowed_domains == {<<"www.youtube.com">>, <<"youtube.com">>, <<"youtu.be">>}

video_id_query_arg_name == <<"v">>

video_id_in_path_domains == {<<"youtu.be">>}

MsgMissingVideo == <<"Missing or erroneous video URL">>

\* PathVideoId without the rstrip('/').
PathVideoIdNoStrip(path) == basename(path)

\* The video id of a path: posixpath.basename(path.rstrip('/')).
PathVideoId(path) == basename(rstrip_slash(path))

\* Lines 232-240: the first value of the query argument, '' without one.
QueryVideoId(query, ids) ==
    IF ~Truthy(query) THEN <<>>
    ELSE IF ids # <<>> THEN strip(ids[1]) ELSE <<>>

\* Lines 224-253, parts being the split URL.
VideoIdOfParts(parts) ==
    IF ~parts.ok THEN <<>>
    ELSE IF parts.netloc \notin allowed_domains THEN <<>>
    ELSE IF parts.netloc \notin video_id_in_path_domains
    THEN QueryVideoId(parts.query,
                      parse_qs_get(parts.query, video_id_query_arg_name))
    ELSE IF ~Truthy(parts.path) \/ Head(parts.path) # "/" THEN <<>>
    ELSE strip(PathVideoId(parts.path))

\* Lines 213-222.
VideoIdOfUrl(url) ==
    IF ~Truthy(url) THEN <<>> ELSE VideoIdOfParts(urlsplit(url))

get_youtube_video_id(n) == VideoIdOfUrl(strip(get_raw_content(n)))

\* Lines 261-262, r being the outcome of the calls before.
CheckVideoId(r, video_id) ==
    IF ~Truthy(video_id) THEN SetErrorMessage(r, MsgMissingVideo) ELSE r

youtube_sanitize_node(n) ==
    CheckVideoId(base_sanitize_node(n), get_youtube_video_id(n))

\* integration_html_template with the width, height and video id filled in.
IntegrationHtml(video_id) ==
    <<Piece("template",
            <<"<div class=\"embed-container center-block\">\n        <div class=\"embed-video\">\n            <iframe width=\"">>),
      Piece("int", FormatInt(default_iframe_width)),
      Piece("template", <<"\" height=\"">>),
      Piece("int", FormatInt(default_iframe_height)),
      Piece("template", <<"\" src=\"https://www.youtube.com/embed/">>),
      Piece("quote_plus", quote_plus(video_id)),
      Piece("template",
            <<"\" frameborder=\"0\" allowfullscreen=\"true\"></iframe>\n        </div>\n    </div>\n    ">>)>>

\* Lines 276-279.
YoutubeHtml(video_id, inner_html) ==
    IF Truthy(video_id) THEN IntegrationHtml(video_id)
    ELSE <<Piece("inner", inner_html)>>

youtube_render_html(n, inner_html) ==
    Return(n, YoutubeHtml(get_youtube_video_id(n), inner_html), <<>>)

\* Line 291.
YoutubeText(video_id, inner_text) ==
    IF Truthy(video_id) THEN <<"https://youtu.be/">> \o quote_plus(video_id)
    ELSE inner_text

youtube_render_text(n, inner_text) ==
    Return(n, YoutubeText(get_youtube_video_id(n), inner_text), <<>>)

(***************************************************************************)
(* CollapseBaseTreeNode (collapse.py)                                      *)
(***************************************************************************)

collapse_render_html(n, inner_html) ==
    Return(n,
           <<Piece("template", <<"<div class=\"", n.tag, "\">">>),
             Piece("inner", inner_html),
             Piece("template", <<"</div>\n">>)>>,
           <<>>)

collapse_render_text(n, inner_text) == Return(n, inner_text, <<>>)

(***************************************************************************)
(* The acronym tag ('acronym', alias 'abbr'), as its tests pin it down     *)
(* (tests_acronyms.py).                                                    *)
(***************************************************************************)

AcronymTags == {"acronym", "abbr"}

acronym_title_attr_name == "title"

\* Lines 35-68 of the tests: the attribute named after the tag, else the
\* title attribute, else ''; HTML entities unescaped.
get_acronym_title(n) ==
    unescape_html_entities(
        get_attribute_value(n, acronym_title_attr_name, <<>>))

\* AcronymHtml without the escaping of the title.
AcronymHtmlRaw(acronym_title, inner_html) ==
    IF ~Truthy(acronym_title) THEN <<Piece("inner", inner_html)>>
    ELSE <<Piece("template", <<"<abbr title=\"">>),
           Piece("none", acronym_title),
           Piece("template", <<"\">">>),
           Piece("inner", inner_html),
           Piece("template", <<"</abbr>">>)>>

\* Lines 70-92 of the tests.
AcronymHtml(acronym_title, inner_html) ==
    IF ~Truthy(acronym_title) THEN <<Piece("inner", inner_html)>>
    ELSE <<Piece("template", <<"<abbr title=\"">>),
           Piece("escape_html", escape_html(acronym_title)),
           Piece("template", <<"\">">>),
           Piece("inner", inner_html),
           Piece("template", <<"</abbr>">>)>>

acronym_render_html(n, inner_html) ==
    Return(n, AcronymHtml(get_acronym_title(n), inner_html), <<>>)

\* Lines 94-116 of the tests.
AcronymText(acronym_title, inner_text) ==
    IF ~Truthy(acronym_title) THEN inner_text
    ELSE inner_text \o <<" ", "(">> \o acronym_title \o <<")">>

acronym_render_text(n, inner_text) ==
    Return(n, AcronymText(get_acronym_title(n), inner_text), <<>>)

\* Lines 118-147 of the tests: [name title="T"]inner[/name], the name
\* being the one the node was created with.
AcronymSkcode(name, acronym_title, inner_skcode) ==
    <<"[", name, " ", acronym_title_attr_name, "=", "\"">> \o acronym_title
        \o <<"\"", "]">> \o inner_skcode \o <<"[", "/", name, "]">>

acronym_render_skcode(n, inner_skcode) ==
    Return(n, AcronymSkcode(n.tag, get_acronym_title(n), inner_skcode), <<>>)

(***************************************************************************)
(* The parser, for the markup of one tag around a text:                    *)
(* [name]text[/name], [name=value]text[/name] (the shorthand sets the      *)
(* attribute named after the tag) and [name attr="value"]text[/name].      *)
(***************************************************************************)

\* What the parser gives: the node's name, its attributes and the text
\* inside, or ok = FALSE for a markup that is not of this form.
Parsed(ok, name, attrs, inner) ==
    [ok |-> ok, tag |-> name, attrs |-> attrs, inner |-> inner]

NotParsed == Parsed(FALSE, "none", NoAttrs, <<>>)

\* rest is what follows the "]" of the open tag: the text, then the close
\* tag [/name].
ParseInner(name, attrs, rest) ==
    IF /\ Len(rest) >= 4
       /\ SubSeq(rest, Len(rest) - 3, Len(rest)) = <<"[", "/", name, "]">>
       /\ Find(SubSeq(rest, 1, Len(rest) - 4), "[") = 0
    THEN Parsed(TRUE, name, attrs, SubSeq(rest, 1, Len(rest) - 4))
    ELSE NotParsed

\* [name=value]: rest follows the "=", e is the place of the "]" in it.
ParseShorthand(name, rest, e) ==
    IF e = 0 \/ name \notin AttrNames THEN NotParsed
    ELSE ParseInner(name, (name :> SubSeq(rest, 1, e - 1)) @@ NoAttrs,
                    SubSeq(rest, e + 1, Len(rest)))

\* [name attr="value"]: rest follows the opening quote, q is the place of
\* the closing quote in it.
ParseQuoted(name, attr, rest, q) ==
    IF q = 0 \/ Len(rest) < q + 1 \/ rest[q + 1] # "]" \/ attr \notin AttrNames
    THEN NotParsed
    ELSE ParseInner(name, (attr :> SubSeq(rest, 1, q - 1)) @@ NoAttrs,
                    SubSeq(rest, q + 2, Len(rest)))

\* rest follows the name of the open tag.
ParseAttrs(name, rest) ==
    IF rest = <<>> THEN NotParsed
    ELSE IF rest[1] = "]" THEN ParseInner(name, NoAttrs, Tail(rest))
    ELSE IF rest[1] = "="
    THEN ParseShorthand(name, Tail(rest), Find(Tail(rest), "]"))
    ELSE IF Len(rest) >= 4 /\ rest[1] = " " /\ rest[3] = "=" /\ rest[4] = "\""
    THEN ParseQuoted(name, rest[2], SubSeq(rest, 5, Len(rest)),
                     Find(SubSeq(rest, 5, Len(rest)), "\""))
    ELSE NotParsed

ParseNode(markup) ==
    IF Len(markup) >= 2 /\ markup[1] = "["
    THEN ParseAttrs(markup[2], SubSeq(markup, 3, Len(markup)))
    ELSE NotParsed

(***************************************************************************)
(* The hooks, by the class of the node.                                    *)
(***************************************************************************)

CollapseTags == {"collapse", "collapse2"}

sanitize_node(n) ==
    CASE n.tag = "code"    -> code_sanitize_node(n)
      [] n.tag = "img"     -> img_sanitize_node(n)
      [] n.tag = "youtube" -> youtube_sanitize_node(n)
      [] OTHER             -> base_sanitize_node(n)

render_html(n, inner_html, force_rel_nofollow) ==
    CASE n.tag = "code"    -> code_render_html(n, inner_html, force_rel_nofollow)
      [] n.tag = "img"     -> img_render_html(n, inner_html)
      [] n.tag = "youtube" -> youtube_render_html(n, inner_html)
      [] n.tag \in AcronymTags -> acronym_render_html(n, inner_html)
      [] OTHER             -> collapse_render_html(n, inner_html)

render_text(n, inner_text) ==
    CASE n.tag = "code"    -> code_render_text(n, inner_text)
      [] n.tag = "img"     -> img_render_text(n, inner_text)
      [] n.tag = "youtube" -> youtube_render_text(n, inner_text)
      [] n.tag \in AcronymTags -> acronym_render_text(n, inner_text)
      [] OTHER             -> collapse_render_text(n, inner_text)

(***************************************************************************)
(* The nodes the hooks are called on.                                      *)
(***************************************************************************)

\* The longest hl_lines list, in tokens.
MaxHlTokens == 3

\* How many calls of one hook in a row are told apart.
MaxStreak == 2

\* The longest content of a code block, in lines.
MaxContentLines == 4

\* The tokens of an hl_lines list: two line numbers (one padded), zero, a
\* negative number, a word and the empty token.
HlTokens == {<<"2">>, <<" ", "1", "3">>, <<"0">>, <<"-", "1">>, <<"x">>, <<>>}

\* What each token is: its kind, the number it spells and the message its
\* rejection is recorded with.
TokenMeaning ==
    (<<"2">> :> [kind |-> "positive", n |-> 2, message |-> <<>>])
        @@ (<<" ", "1", "3">> :> [kind |-> "positive", n |-> 13, message |-> <<>>])
        @@ (<<"0">> :> [kind |-> "zero", n |-> 0, message |-> <<>>])
        @@ (<<"-", "1">> :> [kind |-> "negative", n |-> 0 - 1,
                             message |-> <<"Line number must be positive">>])
        @@ (<<"x">> :> [kind |-> "word", n |-> 0,
                        message |-> <<"x", " is not a number">>])
        @@ (<<>> :> [kind |-> "empty", n |-> 0, message |-> <<>>])

RECURSIVE TokenLists(_)
\* The lists of at most k tokens.
TokenLists(k) ==
    IF k = 0 THEN {<<>>}
    ELSE LET shorter == TokenLists(k - 1)
         IN  shorter \cup {Append(l, t) : l \in shorter, t \in HlTokens}

\* The attribute value a token list spells: ','.join(tokens).
HlSpelling(tokens) == JoinWith(tokens, <<",">>)

\* Values of linenostart, width and height.
NumberTexts == {<<>>, <<"5">>, <<"0">>, <<"-", "3">>, <<"x">>}

LanguageTexts == {<<>>, <<"python">>, <<"nolang">>}

Contents ==
    {<<>>,
     <<"a", "\n", "b", "\n", "c">>,
     <<"\n", "\t", "a", "<", "b", "\n", "\n", "c", "\n", " ", "\n">>}

UrlHttp == <<"http", ":", "/", "/", "a.org", "/", "i.png">>

UrlHttpQuote == <<"https", ":", "/", "/", "a.org", "/", "\"", "<", "x">>

UrlJavascript == <<"JavaScript", ":", "alert">>

UrlFtp == <<"ftp", ":", "/", "/", "a.org", "/", "i.png">>

UrlRelative == <<"/", "i.png">>

UrlBase == <<"http", ":", "/", "/", "b.org">>

Node(tag, attrs, content, children, base) ==
    [tag |-> tag, attrs |-> attrs @@ NoAttrs, content |-> content,
     children |-> children, relative_url_base |-> base,
     error_message |-> <<>>]

\* Code blocks that differ in their hl_lines list.
CodeHlNodes ==
    {Node("code", "hl_lines" :> v, <<"a", "\n", "b", "\n", "c">>, <<>>, <<>>) :
        v \in {HlSpelling(l) : l \in TokenLists(MaxHlTokens)}}

\* Code blocks with every combination of a short hl_lines list, a start
\* line, a language (given as [code=...] or as language=...) and a content.
CodeComboNodes ==
    {Node("code",
          ("hl_lines" :> hl) @@ ("linenostart" :> st) @@ (la[1] :> la[2]),
          c, <<>>, <<>>) :
        hl \in {HlSpelling(l) : l \in TokenLists(1)}, st \in NumberTexts,
        la \in ({"language"} \X LanguageTexts) \cup {<<"code", <<"nolang">>>>},
        c \in Contents}

\* Code blocks with a caption: file name, source link, figure id.
CodeCaptionNodes ==
    {Node("code", ("filename" :> f) @@ ("src" :> u) @@ ("id" :> i),
          <<"a">>, <<>>, b) :
        f \in {<<>>, <<"a", "<", "b">>, <<"&lt;", "b">>},
        u \in {<<>>, UrlHttp, UrlJavascript, UrlRelative},
        i \in {<<>>, <<"Fig", " ", "\"", "1">>},
        b \in {<<>>, UrlBase}}

\* The lines of a content: empty, blank, indented, plain.
ContentLines == {<<>>, <<" ", "\t">>, <<" ", " ", "a">>, <<"b", " ">>}

RECURSIVE LineLists(_)
\* The lists of at most k lines.
LineLists(k) ==
    IF k = 0 THEN {<<>>}
    ELSE LET shorter == LineLists(k - 1)
         IN  shorter \cup {Append(l, t) : l \in shorter, t \in ContentLines}

\* The content a list of lines spells: '\n'.join(lines).
ContentSpelling(lines) == JoinWith(lines, <<"\n">>)

\* Code blocks that differ in the lines of their content.
CodeContentNodes ==
    {Node("code", NoAttrs, c, <<>>, <<>>) :
        c \in {ContentSpelling(l) : l \in LineLists(MaxContentLines)}}

\* Images that differ in where the link comes from.
ImgLinkNodes ==
    {Node("img", ("src" :> u) @@ ("alt" :> a), c, <<"text">>, b) :
        u \in {<<>>, UrlHttp, UrlJavascript, <<"\"", ">", "<", "script", ">">>},
        a \in {<<>>, <<"a", "\"", "b">>},
        c \in {<<>>, <<" ">> \o UrlHttp \o <<"\n">>, UrlHttpQuote,
               UrlJavascript, UrlFtp, UrlRelative},
        b \in {<<>>, UrlBase}}

\* Images that differ in their width and height.
ImgSizeNodes ==
    {Node("img", ("width" :> w) @@ ("height" :> h), c, <<"text">>, <<>>) :
        w \in NumberTexts, h \in NumberTexts, c \in {<<>>, UrlHttp}}

\* scheme://domain/seg1/seg2, with or without a final "/".
PathUrl(scheme, domain, segments, trailing_slash) ==
    scheme \o <<":", "/", "/">> \o domain
        \o Concat([i \in DOMAIN segments |-> <<"/">> \o segments[i]])
        \o (IF trailing_slash THEN <<"/">> ELSE <<>>)

\* scheme://domain/watch?k1=v1&k2=v2
QueryUrl(scheme, domain, pairs) ==
    scheme \o <<":", "/", "/">> \o domain \o <<"/", "watch", "?">>
        \o JoinWith([i \in DOMAIN pairs |-> pairs[i][1] \o <<"=">> \o pairs[i][2]],
                    <<"&">>)

\* Video ids made of letters, digits, "-" and "_".
VideoIds == {<<"dQw4w9WgXcQ">>, <<"a-b", "_", "9">>}

\* What else may stand where a video id is expected.
OddIds == {<<"x", "\"", "<", "y">>}

OtherDomains == {<<"evil.com">>, <<"youtu.be.evil.com">>}

\* URLs with the id in the path, each with its domain and the id it
\* carries where the domain has it (the last segment, for youtu.be).
YoutubePathCases ==
    {[url |-> PathUrl(<<"https">>, d, segs, slash), domain |-> d,
      id |-> IF d = <<"youtu.be">> /\ segs # <<>>
             THEN segs[Len(segs)] ELSE <<>>] :
        d \in allowed_domains \cup OtherDomains,
        segs \in {<<>>} \cup {<<i>> : i \in VideoIds \cup OddIds}
                    \cup {<<<<"embed">>, i>> : i \in VideoIds},
        slash \in BOOLEAN}

\* The pairs of a query and the value of the first pair named v.
QueryPairs ==
    {[pairs |-> <<<<<<"t">>, <<"1">>>>>>, v |-> <<>>]}
        \cup {[pairs |-> <<<<<<"v">>, i>>>>, v |-> i] : i \in VideoIds \cup OddIds}
        \cup {[pairs |-> <<<<<<"t">>, <<"1">>>>, <<<<"v">>, i>>>>, v |-> i] :
                 i \in VideoIds}
        \cup {[pairs |-> <<<<<<"v">>, i>>, <<<<"v">>, <<"other">>>>>>, v |-> i] :
                 i \in VideoIds}

\* URLs with a query, each with its domain and the id it carries where
\* the domain has it (the path of all of them is /watch).
YoutubeQueryCases ==
    {[url |-> QueryUrl(<<"https">>, d, q.pairs), domain |-> d,
      id |-> IF d = <<"youtu.be">> THEN <<"watch">> ELSE q.v] :
        d \in allowed_domains \cup OtherDomains, q \in QueryPairs}

YoutubeCases == YoutubePathCases \cup YoutubeQueryCases

YoutubePathUrls == {c.url : c \in YoutubePathCases}

YoutubeQueryUrls == {c.url : c \in YoutubeQueryCases}

YoutubeNodes ==
    {Node("youtube", NoAttrs, c, <<>>, <<>>) :
        c \in YoutubePathUrls \cup YoutubeQueryUrls
                \cup {<<>>, <<"not", " ", "a", " ", "url">>,
                      <<" ">> \o PathUrl(<<"http">>, <<"youtu.be">>,
                                         <<<<"dQw4w9WgXcQ">>>>, FALSE) \o <<"\n">>,
                      PathUrl(<<"https">>, <<"[", "youtu.be">>,
                              <<<<"dQw4w9WgXcQ">>>>, FALSE)}}

\* Values of the two attributes an acronym takes its title from.
TitleTexts ==
    {<<>>, <<"As Soon As Possible">>, <<"<", "b", ">">>, <<"&lt;", "b">>}

\* Acronyms under both names, with the shorthand attribute, the title
\* attribute, both or none.
AcronymNodes ==
    {Node(t, (t :> own) @@ ("title" :> title), <<>>, <<"text">>, <<>>) :
        t \in AcronymTags, own \in TitleTexts, title \in TitleTexts}

\* Code blocks that differ in where the language comes from.
CodeLanguageNodes ==
    {Node("code", ("code" :> own) @@ ("language" :> la), <<"a">>, <<>>, <<>>) :
        own \in {<<>>, <<"python">>, <<"&lt;", "b">>},
        la \in {<<>>, <<"text">>, <<"nolang">>, <<"&amp;", "c">>}}

CollapseNodes ==
    {Node(t, NoAttrs, <<>>, ch, <<>>) :
        t \in CollapseTags, ch \in {<<>>, <<"text">>, <<"text", "code">>}}

Nodes ==
    CodeHlNodes \cup CodeComboNodes \cup CodeCaptionNodes
        \cup CodeContentNodes \cup CodeLanguageNodes \cup AcronymNodes
        \cup ImgLinkNodes
        \cup ImgSizeNodes \cup YoutubeNodes \cup CollapseNodes

\* The inner output a render hook is handed.
InnerOutputs == {<<>>, <<"inner">>}

(***************************************************************************)
(* The hooks called one after the other.                                   *)
(***************************************************************************)

Threads == {"render_html", "render_text"}

NoNode == [tag |-> "none"]

\* What the last call was given and what came of it.
NoOutcome == [status |-> "none", value |-> <<>>, arg |-> <<>>, nofollow |-> FALSE]

Init ==
    /\ node \in Nodes
    /\ pygments_imported \in BOOLEAN
    /\ last = "none"
    /\ streak = 0
    /\ out = NoOutcome
    /\ errlog = <<>>
    /\ sanitized = NoNode
    /\ pc = [t \in Threads |-> "idle"]
    /\ acc = [t \in Threads |-> <<>>]

\* The call of hook op, handed the inner output arg and the option
\* force_rel_nofollow, with outcome r.
CallWith(op, arg, nofollow, r) ==
    /\ node' = r.node
    /\ out' = [status |-> r.status, value |-> r.value, arg |-> arg,
               nofollow |-> nofollow]
    /\ errlog' = r.log
    /\ last' = op
    /\ streak' = IF last # op THEN 1
                 ELSE IF streak < MaxStreak THEN streak + 1 ELSE streak
    /\ UNCHANGED <<pygments_imported, sanitized, pc, acc>>

\* The call of a hook that takes no option.
Call(op, arg, r) == CallWith(op, arg, FALSE, r)

SanitizeNode == Call("sanitize_node", <<>>, sanitize_node(node))

RenderHtml ==
    \E inner_html \in InnerOutputs, force_rel_nofollow \in BOOLEAN :
        CallWith("render_html", inner_html, force_rel_nofollow,
                 render_html(node, inner_html, force_rel_nofollow))

RenderText ==
    \E inner_text \in InnerOutputs :
        Call("render_text", inner_text, render_text(node, inner_text))

GetHighlightLines ==
    /\ node.tag = "code"
    /\ Call("get_highlight_lines", <<>>, get_highlight_lines(node))

GetStartLineNumber ==
    /\ node.tag = "code"
    /\ Call("get_start_line_number", <<>>, get_start_line_number(node))

GetImageSrcLink ==
    /\ node.tag = "img"
    /\ Call("get_image_src_link", <<>>,
            Return(node, get_image_src_link(node), <<>>))

\* get_cleaned_content(splitlines): the lines or the joined string.
GetCleanedContent ==
    /\ node.tag = "code"
    /\ \E splitlines_ \in BOOLEAN :
           Call("get_cleaned_content",
                IF splitlines_ THEN <<"splitlines">> ELSE <<>>,
                Return(node,
                       IF splitlines_ THEN get_cleaned_lines(node)
                       ELSE get_cleaned_content(node),
                       <<>>))

RenderSkcode ==
    /\ node.tag \in AcronymTags
    /\ \E inner_skcode \in InnerOutputs :
           Call("render_skcode", inner_skcode,
                acronym_render_skcode(node, inner_skcode))

\* The markup render_skcode returned is parsed again.
ParseRendered ==
    /\ last = "render_skcode"
    /\ Call("parse", out.value, Return(node, ParseNode(out.value), <<>>))

GetAcronymTitle ==
    /\ node.tag \in AcronymTags
    /\ Call("get_acronym_title", <<>>,
            Return(node, get_acronym_title(node), <<>>))

GetLanguageName ==
    /\ node.tag = "code"
    /\ Call("get_language_name", <<>>,
            Return(node, get_language_name(node), <<>>))

Next ==
    \/ SanitizeNode
    \/ RenderHtml
    \/ RenderText
    \/ GetHighlightLines
    \/ GetStartLineNumber
    \/ GetImageSrcLink
    \/ GetCleanedContent
    \/ RenderSkcode
    \/ ParseRendered
    \/ GetAcronymTitle
    \/ GetLanguageName

Spec == Init /\ [][Next]_vars

(***************************************************************************)
(* The two renderers of one sanitized node as two threads.  sanitize_node  *)
(* runs to completion first; then each thread runs its render hook, one    *)
(* accessor call at a time, so that the assignments the accessors make to  *)
(* error_message interleave.  Pygments is importable here.                  *)
(***************************************************************************)

\* The accessors a render hook calls that assign error_message, in the
\* order of the calls.
Accessors(t, tag) ==
    IF tag = "code" /\ t = "render_html"
    THEN <<"get_highlight_lines", "get_start_line_number">>
    ELSE IF tag = "code"
    THEN <<"get_start_line_number", "get_highlight_lines">>
    ELSE IF tag = "img" /\ t = "render_html"
    THEN <<"get_img_width", "get_img_height">>
    ELSE <<>>

Accessor(name, n) ==
    CASE name = "get_highlight_lines"   -> get_highlight_lines(n)
      [] name = "get_start_line_number" -> get_start_line_number(n)
      [] name = "get_img_width"         -> get_img_width(n)
      [] OTHER                          -> get_img_height(n)

\* The inner output both threads are handed.
ConcInner == <<"inner">>

\* The string hook t returns, values being what its accessors returned.
Rendered(t, n, values) ==
    CASE t = "render_html" /\ n.tag = "code" ->
             CodeHtml(n, values[1], values[2], TRUE)
      [] t = "render_html" /\ n.tag = "img" ->
             ImgHtml(n, values[1], values[2])
      [] t = "render_html" /\ n.tag = "youtube" ->
             youtube_render_html(n, ConcInner).value
      [] t = "render_html" /\ n.tag \in CollapseTags ->
             collapse_render_html(n, ConcInner).value
      [] t = "render_html" /\ n.tag \in AcronymTags ->
             acronym_render_html(n, ConcInner).value
      [] t = "render_text" /\ n.tag \in AcronymTags ->
             acronym_render_text(n, ConcInner).value
      [] t = "render_text" /\ n.tag = "code" ->
             CodeText(n, values[1], values[2])
      [] t = "render_text" /\ n.tag = "img" ->
             img_render_text(n, ConcInner).value
      [] t = "render_text" /\ n.tag = "youtube" ->
             youtube_render_text(n, ConcInner).value
      [] OTHER -> collapse_render_text(n, ConcInner).value

ConcInit ==
    /\ node \in Nodes
    /\ pygments_imported = TRUE
    /\ last = "none"
    /\ streak = 0
    /\ out = [t \in Threads |-> NoOutcome]
    /\ errlog = <<>>
    /\ sanitized = NoNode
    /\ pc = [t \in Threads |-> "idle"]
    /\ acc = [t \in Threads |-> <<>>]

\* sanitize_node has run with outcome r: the threads may start.
Sanitized(r) ==
    /\ node' = r.node
    /\ sanitized' = r.node
    /\ errlog' = r.log
    /\ last' = "sanitize_node"
    /\ pc' = [t \in Threads |-> "running"]
    /\ UNCHANGED <<pygments_imported, streak, out, acc>>

ConcSanitize ==
    /\ \A t \in Threads : pc[t] = "idle"
    /\ Sanitized(sanitize_node(node))

\* Thread t has called an accessor, with outcome r.
Accessed(t, r) ==
    /\ node' = r.node
    /\ acc' = [acc EXCEPT ![t] = Append(@, r.value)]
    /\ errlog' = errlog \o r.log
    /\ last' = t
    /\ UNCHANGED <<pygments_imported, streak, out, sanitized, pc>>

\* Thread t calls the next accessor of its hook.
AccessorStep(t) ==
    /\ pc[t] = "running"
    /\ Len(acc[t]) < Len(Accessors(t, node.tag))
    /\ Accessed(t, Accessor(Accessors(t, node.tag)[Len(acc[t]) + 1], node))

\* Thread t builds its string and returns.
ReturnStep(t) ==
    /\ pc[t] = "running"
    /\ Len(acc[t]) = Len(Accessors(t, node.tag))
    /\ out' = [out EXCEPT ![t] = [status |-> "returned",
                                  value |-> Rendered(t, node, acc[t]),
                                  arg |-> ConcInner, nofollow |-> TRUE]]
    /\ pc' = [pc EXCEPT ![t] = "done"]
    /\ last' = t
    /\ UNCHANGED <<node, pygments_imported, streak, errlog, sanitized, acc>>

ConcNext ==
    \/ ConcSanitize
    \/ \E t \in Threads : AccessorStep(t)
    \/ \E t \in Threads : ReturnStep(t)

ConcSpec == ConcInit /\ [][ConcNext]_vars

(***************************************************************************)
(* Properties.                                                             *)
(***************************************************************************)

RenderHooks == {"render_html", "render_text"}

\* The functions a value of the node may reach the HTML through, and the
\* pieces that hold no value of the node.
SafePieces ==
    {"template", "inner", "int", "escape_html", "quote_plus", "slugify",
     "sanitize_url", "highlight"}

\* C1: in the HTML render_html returns for an image, a youtube or a code
\* node, every piece taken from the attributes or the content of the node
\* has gone through an escaping or sanitizing function.
C1_NoRawInputInHtml ==
    (/\ last = "render_html"
     /\ node.tag \in {"img", "youtube", "code"}
     /\ out.status = "returned")
        => \A i \in DOMAIN out.value : out.value[i].via \in SafePieces

\* The URL an image node is given: the src attribute, else its content.
CandidateUrl(n) ==
    IF Truthy(n.attrs["src"]) THEN n.attrs["src"] ELSE strip(n.content)

\* C2: for an image node whose URL, from the src attribute or from the
\* content, has a scheme outside allowed_schemes, get_image_src_link
\* returns an empty link and sanitize_node records a validation error.
C2_SchemeAllowList ==
    (/\ node.tag = "img"
     /\ Truthy(urlsplit(CandidateUrl(node)).scheme)
     /\ urlsplit(CandidateUrl(node)).scheme \notin allowed_schemes)
        => /\ last = "get_image_src_link" => out.value.text = <<>>
           /\ last = "sanitize_node" => node.error_message = MsgMissingSource

\* C3: a call of render_html or render_text leaves the node as it was.
C3_RenderIsPureRead ==
    [][last' \in RenderHooks => node' = node]_vars

\* C4: when render_html and render_text have run interleaved on a
\* sanitized node, each has returned what it returns when run alone and
\* the node is as sanitize_node left it.
C4_ConcurrentRenderKeepsNode ==
    (\A t \in Threads : pc[t] = "done")
        => /\ node = sanitized
           /\ out["render_html"].value
                  = render_html(sanitized, ConcInner, TRUE).value
           /\ out["render_text"].value
                  = render_text(sanitized, ConcInner).value

\* C5: after a sanitize_node call on a code or image node that detected
\* problems, the error annotation is the first problem it detected.
C5_FirstErrorWins ==
    (/\ last = "sanitize_node"
     /\ node.tag \in {"code", "img"}
     /\ errlog # <<>>)
        => node.error_message = errlog[1]

\* The tokens of the three kinds: positive numbers, negative numbers and
\* words.
MixedTokens ==
    {t \in HlTokens : TokenMeaning[t].kind \in {"positive", "negative", "word"}}

MixedLists ==
    {l \in TokenLists(MaxHlTokens) : \A i \in DOMAIN l : l[i] \in MixedTokens}

RECURSIVE PositiveNumbers(_)
\* The positive numbers of a token list, in order.
PositiveNumbers(l) ==
    IF l = <<>> THEN <<>>
    ELSE (IF TokenMeaning[Head(l)].kind = "positive"
          THEN <<TokenMeaning[Head(l)].n>> ELSE <<>>)
             \o PositiveNumbers(Tail(l))

RECURSIVE RejectionMessages(_)
\* The messages of the negative numbers and the words of a token list, in
\* order.
RejectionMessages(l) ==
    IF l = <<>> THEN <<>>
    ELSE (IF TokenMeaning[Head(l)].kind \in {"negative", "word"}
          THEN <<TokenMeaning[Head(l)].message>> ELSE <<>>)
             \o RejectionMessages(Tail(l))

\* The hl_lines values that mix tokens of the three kinds, with the lines
\* and the messages expected of each.
HlCases ==
    {[text |-> HlSpelling(l), accepted |-> PositiveNumbers(l),
      rejected |-> RejectionMessages(l)] : l \in MixedLists}

\* C6: for an hl_lines list of positive numbers, negative numbers and
\* words, get_highlight_lines returns exactly the positive numbers, in
\* order, and records one validation error per rejected token.
C6_HighlightLineParsing ==
    last = "get_highlight_lines"
        => \A c \in HlCases :
               node.attrs["hl_lines"] = c.text
                   => /\ out.status = "returned"
                      /\ out.value = c.accepted
                      /\ errlog = c.rejected
                      /\ c.rejected # <<>>
                            => node.error_message = c.rejected[Len(c.rejected)]

C6_Witness ==
    /\ last = "get_highlight_lines"
    /\ node.attrs["hl_lines"] = <<"2", ",", "-", "1", ",", "x">>
    /\ out.value = <<2>>
    /\ Len(errlog) = 2

\* The start line expected of each value of linenostart.
ExpectedStart ==
    (<<>> :> 1) @@ (<<"5">> :> 5) @@ (<<"0">> :> 0) @@ (<<"-", "3">> :> 1)
        @@ (<<"x">> :> 1)

InvalidStarts == {<<"-", "3">>, <<"x">>}

\* The language a code block declares, as [code=...] or as language=...
DeclaredLanguage(n) ==
    IF n.attrs["code"] # <<>> THEN n.attrs["code"] ELSE n.attrs["language"]

ExpectedLexer(n) ==
    IF DeclaredLanguage(n) = <<"python">> THEN <<"python">> ELSE <<"text">>

\* A code block with something to report.
Defective(n, c) ==
    \/ c.rejected # <<>>
    \/ n.attrs["linenostart"] \in InvalidStarts
    \/ DeclaredLanguage(n) = <<"nolang">>

\* C7: with Pygments importable, on a code block with any combination of
\* unknown language, rejected hl_lines tokens and invalid linenostart,
\* sanitize_node returns and records an error when there is one to
\* record, and render_html and render_text return, with the 'text' lexer
\* for an unknown language, start line 1 for an invalid linenostart and
\* the accepted highlight lines only.
C7_ErrorNodesStillRender ==
    (node.tag = "code" /\ pygments_imported)
        => \A c \in HlCases :
               node.attrs["hl_lines"] = c.text
                   => /\ last = "sanitize_node"
                            => /\ out.status = "returned"
                               /\ Defective(node, c) => node.error_message # <<>>
                      /\ last = "render_html"
                            => /\ out.status = "returned"
                               /\ \E i \in DOMAIN out.value :
                                      /\ out.value[i].via = "highlight"
                                      /\ out.value[i].lexer = ExpectedLexer(node)
                                      /\ out.value[i].linenostart
                                             = ExpectedStart[node.attrs["linenostart"]]
                                      /\ out.value[i].hl_lines = c.accepted
                      /\ last = "render_text"
                            => /\ out.status = "returned"
                               /\ out.value
                                      = CodeText(node,
                                                 ExpectedStart[node.attrs["linenostart"]],
                                                 c.accepted)

C7_Witness ==
    /\ last = "render_html"
    /\ node.tag = "code"
    /\ pygments_imported
    /\ node.attrs["code"] = <<"nolang">>
    /\ node.attrs["linenostart"] \in InvalidStarts
    /\ node.attrs["hl_lines"] = <<"x">>
    /\ node.error_message # <<>>
    /\ out.status = "returned"

\* C8: without Pygments, sanitize_node and render_html of a code block
\* still return.
C8_HighlighterIsOptional ==
    (/\ node.tag = "code"
     /\ ~pygments_imported
     /\ last \in {"sanitize_node", "render_html"})
        => out.status = "returned"

\* The pieces are the embed of video id: the id follows the address of
\* the player and nothing else of the node is in them.
EmbedsId(pieces, id) ==
    \E i \in DOMAIN pieces :
        /\ i > 1
        /\ pieces[i - 1]
               = Piece("template", <<"\" src=\"https://www.youtube.com/embed/">>)
        /\ pieces[i].text = id
        /\ \A j \in DOMAIN pieces \ {i} : pieces[j].via \in {"template", "int"}

\* C9: for a youtube node whose content is a URL on an allowed domain
\* carrying a video id, render_html returns the embed of that id and
\* render_text the youtu.be link to it; for a URL on another domain,
\* sanitize_node records an error and both render hooks return the inner
\* output they were given.
C9_YoutubeEmbed ==
    node.tag = "youtube"
        => \A c \in YoutubeCases :
               node.content = c.url
                   => /\ (c.domain \in allowed_domains /\ c.id \in VideoIds)
                            => /\ last = "render_html"
                                     => EmbedsId(out.value, c.id)
                               /\ last = "render_text"
                                     => out.value = <<"https://youtu.be/">> \o c.id
                      /\ c.domain \notin allowed_domains
                            => /\ last = "sanitize_node"
                                     => node.error_message = MsgMissingVideo
                               /\ last = "render_html"
                                     => PiecesText(out.value) = out.arg
                               /\ last = "render_text" => out.value = out.arg

C9_Witness ==
    /\ last = "render_html"
    /\ node.tag = "youtube"
    /\ node.content
           = PathUrl(<<"https">>, <<"youtu.be">>, <<<<"dQw4w9WgXcQ">>>>, TRUE)
    /\ EmbedsId(out.value, <<"dQw4w9WgXcQ">>)

\* C10: a second sanitize_node call right after a first one leaves the
\* node (attributes, content, children, error annotation) as the first
\* one left it.
C10_SanitizeIdempotent ==
    [][(last = "sanitize_node" /\ last' = "sanitize_node") => node' = node]_vars

C10_Witness ==
    /\ last = "sanitize_node"
    /\ streak = 2
    /\ node.tag \in {"code", "img", "youtube"}
    /\ node.error_message # <<>>

\* A line is blank when it holds nothing but white space.
IsBlankLine(line) == \A i \in DOMAIN line : line[i] \in {" ", "\t"}

\* The lines from the first to the last line that is not blank.
Trimmed(lines) ==
    IF \A i \in DOMAIN lines : IsBlankLine(lines[i]) THEN <<>>
    ELSE SubSeq(lines,
                CHOOSE i \in DOMAIN lines :
                    /\ ~IsBlankLine(lines[i])
                    /\ \A j \in 1..(i - 1) : IsBlankLine(lines[j]),
                CHOOSE i \in DOMAIN lines :
                    /\ ~IsBlankLine(lines[i])
                    /\ \A j \in (i + 1)..Len(lines) : IsBlankLine(lines[j]))

\* The contents of up to MaxContentLines lines, with what is expected to
\* be left of each.
ContentCases ==
    {[text |-> ContentSpelling(l), lines |-> Trimmed(l)] :
        l \in LineLists(MaxContentLines)}

\* C11: get_cleaned_content returns the lines of the content from the
\* first to the last line that is not blank, each as it is and in order,
\* and nothing for a content of blank lines only.
C11_ContentTrimming ==
    (last = "get_cleaned_content" /\ out.status = "returned")
        => \A c \in ContentCases :
               node.content = c.text
                   => IF out.arg = <<"splitlines">>
                      THEN out.value = c.lines
                      ELSE out.value = ContentSpelling(c.lines)

C11_Witness ==
    /\ last = "get_cleaned_content"
    /\ node.content
           = ContentSpelling(<<<<" ", "\t">>, <<" ", " ", "a">>, <<>>,
                               <<"b", " ">>>>)
    /\ out.arg = <<"splitlines">>
    /\ out.value = <<<<" ", " ", "a">>, <<>>, <<"b", " ">>>>

\* C12: parsing the markup render_skcode returned for an acronym node
\* gives a node structurally equal to the original: same name (the alias
\* kept) and same attributes.
C12_CanonicalRoundTrip ==
    (last = "parse" /\ node.tag \in AcronymTags)
        => /\ out.value.ok
           /\ out.value.tag = node.tag
           /\ out.value.attrs = node.attrs

\* The attribute values that hold HTML entities, with what they stand for.
EntityTexts ==
    (<<"&lt;", "b">> :> <<"<", "b">>) @@ (<<"&amp;", "c">> :> <<"&", "c">>)

\* An attribute value with its entities replaced.
Unescaped(v) == IF v \in DOMAIN EntityTexts THEN EntityTexts[v] ELSE v

\* The titles that change when written into HTML, with their HTML form.
HtmlTexts ==
    (<<"<", "b", ">">> :> <<"&lt;", "b", "&gt;">>)
        @@ (<<"<", "b">> :> <<"&lt;", "b">>)

HtmlForm(v) == IF v \in DOMAIN HtmlTexts THEN HtmlTexts[v] ELSE v

\* The primary value of a node: the attribute named after the tag when it
\* is set, else the attribute name when it is set, else the default.
PrimaryValue(n, name, default) ==
    IF n.attrs[n.tag] # <<>> THEN Unescaped(n.attrs[n.tag])
    ELSE IF n.attrs[name] # <<>> THEN Unescaped(n.attrs[name])
    ELSE default

\* The string expected of render_html for title t and inner output i.
ExpectedAcronymHtml(t, i) ==
    IF t = <<>> THEN i
    ELSE <<"<abbr title=\"">> \o HtmlForm(t) \o <<"\">">> \o i \o <<"</abbr>">>

\* C13: for an acronym node with title T and inner output I, render_html
\* returns <abbr title="E">I</abbr>, E being T HTML-escaped, and
\* render_text returns I (T), T as it is; without a title both return I.
C13_AcronymRendering ==
    node.tag \in AcronymTags
        => /\ last = "render_html"
                 => /\ out.status = "returned"
                    /\ PiecesText(out.value)
                           = ExpectedAcronymHtml(PrimaryValue(node, "title", <<>>),
                                                 out.arg)
           /\ last = "render_text"
                 => /\ out.status = "returned"
                    /\ out.value
                           = IF PrimaryValue(node, "title", <<>>) = <<>>
                             THEN out.arg
                             ELSE out.arg \o <<" ", "(">>
                                      \o PrimaryValue(node, "title", <<>>)
                                      \o <<")">>

C13_Witness ==
    /\ last = "render_html"
    /\ node.tag = "acronym"
    /\ node.attrs["acronym"] = <<>>
    /\ node.attrs["title"] = <<"<", "b", ">">>
    /\ out.arg = <<"inner">>
    /\ PiecesText(out.value)
           = <<"<abbr title=\"", "&lt;", "b", "&gt;", "\">", "inner", "</abbr>">>

\* C14: get_acronym_title returns the attribute named after the tag when
\* it is set, else the title attribute, else '', with the HTML entities
\* unescaped; get_language_name follows the same order with the language
\* attribute and the default 'text'.
C14_PrimaryValueLookup ==
    /\ last = "get_acronym_title"
          => out.value = PrimaryValue(node, "title", <<>>)
    /\ last = "get_language_name"
          => out.value = PrimaryValue(node, "language", <<"text">>)

C14_Witness ==
    /\ last = "get_language_name"
    /\ node.attrs["code"] = <<"&lt;", "b">>
    /\ node.attrs["language"] = <<"nolang">>
    /\ out.value = <<"<", "b">>

\* The decimal spelling of a number below 100.
Numeral(n) ==
    IF n < 10 THEN <<DigitSeq[n + 1]>>
    ELSE <<DigitSeq[(n \div 10) + 1], DigitSeq[(n % 10) + 1]>>

\* The line starts with the number n and the mark.
StartsWith(line, n, mark) ==
    /\ Len(line) > Len(Numeral(n))
    /\ SubSeq(line, 1, Len(Numeral(n)) + 1) = Numeral(n) \o <<mark>>

\* lines are the lines of the listing, content the lines of the cleaned
\* content, numbered from start, accepted the highlight lines.
IsListing(lines, content, start, accepted) ==
    /\ Len(lines) > Len(content)
    /\ \A i \in DOMAIN content :
           StartsWith(lines[i], start + i - 1,
                      IF \E k \in DOMAIN accepted : accepted[k] = start + i - 1
                      THEN ">" ELSE ".")

\* C15: render_text of a code block gives one line per line of the
\* cleaned content, in order, numbered from the start line (linenostart
\* when it is a non-negative number, else 1), with the prefix n> for the
\* accepted highlight lines and n. for the others.
C15_PlainTextListing ==
    (last = "render_text" /\ node.tag = "code")
        => /\ out.status = "returned"
           /\ IsListing(split(out.value, "\n"), get_cleaned_lines(node),
                        ExpectedStart[node.attrs["linenostart"]],
                        get_highlight_lines(node).value)

C15_Witness ==
    /\ last = "render_text"
    /\ node.tag = "code"
    /\ node.attrs["hl_lines"] = <<"2", ",", "-", "1", ",", "x">>
    /\ node.attrs["linenostart"] = <<>>
    /\ out.value = <<"1", ".", " ", " ", " ", "a", "\n",
                     "2", ">", " ", " ", " ", "b", "\n",
                     "3", ".", " ", " ", " ", "c", "\n">>

\* The node without its error annotation, as before any sanitize_node.
NeverSanitized(n) == [n EXCEPT !.error_message = <<>>]

\* The outcome of a call as out keeps it.
Outcome(r) == [status |-> r.status, value |-> r.value]

\* C16: what render_html and render_text of a code, image or youtube node
\* give (the string, or the exception) is what they give for the same
\* node without its error annotation.
C16_OutputIgnoresErrorAnnotation ==
    node.tag \in {"code", "img", "youtube"}
        => /\ last = "render_html"
                 => Outcome(out)
                        = Outcome(render_html(NeverSanitized(node), out.arg,
                                              out.nofollow))
           /\ last = "render_text"
                 => Outcome(out)
                        = Outcome(render_text(NeverSanitized(node), out.arg))

C16_Witness ==
    /\ last = "render_text"
    /\ node.tag = "img"
    /\ node.error_message = MsgWidthPositive
    /\ out.arg = <<"inner">>
    /\ out.value = UrlHttp

====
